---- MODULE Spec2Model ----
(***************************************************************************)
(* Model of prograde (src/src/prograde/__main__.py): the mark block parser *)
(* get_nb_marks, the notebook locator get_proj_marks, the configuration    *)
(* check check_config and the aggregation get_marks with the commands of   *)
(* main that call it.                                                      *)
(*                                                                         *)
(* Text is modelled character by character: a str is a sequence of         *)
(* one-character strings, so that splitlines, the regular expression of    *)
(* get_nb_marks, float() and split('@') are computed as Python computes    *)
(* them.  A float is held exactly, as an integer count of 10^-FracDigits.  *)
(***************************************************************************)
EXTENDS Integers, Sequences, FiniteSets, TLC

VARIABLES
    nb,            \* get_nb_marks: the notebook read from nb_path (a sequence of cells)
    nb_result,     \* get_nb_marks: its outcome, "pending" before the call
    action,        \* main: args.action
    allow_missing, \* main: args.allow_missing
    config,        \* main: the configuration read from args.config
    dirs,          \* the notebooks of each project directory, in glob order
    pc,            \* where the run is: "main", "get_marks", "output", "done", "failed"
    n_done,        \* get_marks: the number of projects the loop has dealt with
    class_list,    \* get_marks: the roster table
    error,         \* the exception that ended the run, if any
    wrote,         \* history: the <<project, row>> pairs line 183 has written
    files          \* the files written, in order

vars == <<nb, nb_result, action, allow_missing, config, dirs, pc, n_done, class_list,
          error, wrote, files>>

(***************************************************************************)
(* Bounds                                                                  *)
(***************************************************************************)
MaxBodyLines == 2   \* lines of a mark cell after its first two lines
FracDigits == 1     \* digits kept after the decimal point of a float

(***************************************************************************)
(* Characters and words                                                    *)
(***************************************************************************)
Digits == {"0", "1", "2", "3", "4", "5", "6", "7", "8", "9"}

Letters ==
    {"a", "b", "c", "d", "e", "f", "g", "h", "i", "j", "k", "l", "m",
     "n", "o", "p", "q", "r", "s", "t", "u", "v", "w", "x", "y", "z",
     "A", "B", "C", "D", "E", "F", "G", "H", "I", "J", "K", "L", "M",
     "N", "O", "P", "Q", "R", "S", "T", "U", "V", "W", "X", "Y", "Z"}

\* \w of Python's re on str, within the characters the model uses
WordChars == Letters \cup Digits \cup {"_"}

\* \s of Python's re on str, within the characters a line can hold
SpaceChars == {" ", "\t"}

\* [0-9.]
NumChars == Digits \cup {"."}

Questions == <<"Q", "u", "e", "s", "t", "i", "o", "n", "s">>
Analysis == <<"A", "n", "a", "l", "y", "s", "i", "s">>
Results == <<"R", "e", "s", "u", "l", "t", "s">>
Readability == <<"R", "e", "a", "d", "a", "b", "i", "l", "i", "t", "y">>
Writing == <<"W", "r", "i", "t", "i", "n", "g">>
Reproducibility ==
    <<"R", "e", "p", "r", "o", "d", "u", "c", "i", "b", "i", "l", "i", "t", "y">>

MARK_CATEGORIES ==
    {Questions, Analysis, Results, Readability, Writing, Reproducibility}

\* the literal '## Marks'
MarksHeader == <<"#", "#", " ", "M", "a", "r", "k", "s">>

(***************************************************************************)
(* str.splitlines(), float() and re.match                                  *)
(***************************************************************************)
\* the least j >= i with j > Len(s) or s[j] \notin class
RECURSIVE SkipWhile(_, _, _)
SkipWhile(s, i, class) ==
    IF i > Len(s) \/ s[i] \notin class THEN i ELSE SkipWhile(s, i + 1, class)

\* the least j >= i with j > Len(s) or s[j] = c
RECURSIVE Find(_, _, _)
Find(s, i, c) ==
    IF i > Len(s) \/ s[i] = c THEN i ELSE Find(s, i + 1, c)

\* str.splitlines() for the line boundary "\n": no empty last line after a
\* final "\n", and [] for the empty string
RECURSIVE splitlines(_)
splitlines(s) ==
    IF s = <<>> THEN <<>>
    ELSE LET j == Find(s, 1, "\n")
         IN  <<SubSeq(s, 1, j - 1)>>
             \o (IF j >= Len(s) THEN <<>> ELSE splitlines(SubSeq(s, j + 1, Len(s))))

RECURSIVE Pow10(_)
Pow10(n) == IF n = 0 THEN 1 ELSE 10 * Pow10(n - 1)

\* one unit of a float is 10^-FracDigits
Scale == Pow10(FracDigits)

DigitVal(c) ==
    CASE c = "0" -> 0 [] c = "1" -> 1 [] c = "2" -> 2 [] c = "3" -> 3 [] c = "4" -> 4
      [] c = "5" -> 5 [] c = "6" -> 6 [] c = "7" -> 7 [] c = "8" -> 8 [] c = "9" -> 9

\* the number a string of digits denotes ("" denotes 0)
RECURSIVE DigitsVal(_)
DigitsVal(s) ==
    IF s = <<>> THEN 0
    ELSE 10 * DigitsVal(SubSeq(s, 1, Len(s) - 1)) + DigitVal(s[Len(s)])

\* the first FracDigits digits of a fraction, as a count of units
RECURSIVE FracVal(_, _)
FracVal(s, n) ==
    IF n = 0 THEN 0
    ELSE (IF s = <<>> THEN 0 ELSE DigitVal(Head(s)) * Pow10(n - 1))
         + FracVal(IF s = <<>> THEN s ELSE Tail(s), n - 1)

\* float(v) accepts a string of [0-9.] iff it has at least one digit and at
\* most one point; otherwise it raises ValueError
float_ok(v) ==
    /\ \E i \in 1..Len(v) : v[i] \in Digits
    /\ Cardinality({i \in 1..Len(v) : v[i] = "."}) <= 1

float(v) ==
    LET p == SkipWhile(v, 1, Digits)
    IN  DigitsVal(SubSeq(v, 1, p - 1)) * Scale
        + FracVal(SubSeq(v, p + 1, Len(v)), FracDigits)

\* re.match(r'\*\s*(\w*)\s*:\s*([0-9.]+)\s*$', L): the character classes of
\* adjacent parts are disjoint, so the greedy match is the only one
re_match(L) ==
    LET i1 == SkipWhile(L, 2, SpaceChars)
        i2 == SkipWhile(L, i1, WordChars)
        i3 == SkipWhile(L, i2, SpaceChars)
        i4 == SkipWhile(L, i3 + 1, SpaceChars)
        i5 == SkipWhile(L, i4, NumChars)
        i6 == SkipWhile(L, i5, SpaceChars)
        ok == /\ Len(L) >= 1 /\ L[1] = "*"
              /\ i3 <= Len(L) /\ L[i3] = ":"
              /\ i5 > i4
              /\ i6 = Len(L) + 1
    IN  [ok |-> ok,
         k |-> IF ok THEN SubSeq(L, i1, i2 - 1) ELSE <<>>,
         v |-> IF ok THEN SubSeq(L, i4, i5 - 1) ELSE <<>>]

(***************************************************************************)
(* get_nb_marks                                                            *)
(***************************************************************************)
\* a dict with no entry
EmptyMarks == [k \in {} |-> 0]

\* a dict that keeps the first value of a key
SetItemKeepFirst(marks, k, x) ==
    [c \in DOMAIN marks \cup {k} |-> IF c \in DOMAIN marks THEN marks[c] ELSE x]

\* marks[k] = x
SetItem(marks, k, x) ==
    [c \in DOMAIN marks \cup {k} |-> IF c = k THEN x ELSE marks[c]]

NoMarks == [kind |-> "None", marks |-> EmptyMarks]

\* the loop of get_nb_marks over last_lines[1:]
RECURSIVE scan_lines(_, _)
scan_lines(lines, marks) ==
    IF lines = <<>> THEN [kind |-> "marks", marks |-> marks]
    ELSE LET m == re_match(Head(lines))
         IN  IF ~m.ok THEN scan_lines(Tail(lines), marks)
             ELSE IF ~float_ok(m.v)
                  THEN [kind |-> "ValueError", marks |-> EmptyMarks]
                  ELSE scan_lines(Tail(lines), SetItem(marks, m.k, float(m.v)))

\* the first cell of the notebook
first_cell(cells) == cells[1]

\* the cell whose type and source get_nb_marks reads
mark_cell(cells) == cells[Len(cells)]

\* not (len(last_lines) < 2 or last_lines.pop(0) != '## Marks')
header_ok(last_lines) ==
    ~(Len(last_lines) < 2 \/ Head(last_lines) /= MarksHeader)

get_nb_marks(notebook) ==
    IF Len(notebook) = 0 THEN NoMarks
    ELSE LET last_cell == mark_cell(notebook)
             last_lines == splitlines(last_cell.source)
         IN  IF last_cell.cell_type /= "markdown" THEN NoMarks
             ELSE IF ~header_ok(last_lines)
                  THEN NoMarks
                  ELSE scan_lines(Tail(Tail(last_lines)), EmptyMarks)

(***************************************************************************)
(* Notebooks the parser is run on                                          *)
(***************************************************************************)
\* '\n'.join(lines)
RECURSIVE JoinLines(_)
JoinLines(lines) ==
    IF lines = <<>> THEN <<>>
    ELSE IF Len(lines) = 1 THEN Head(lines)
    ELSE Head(lines) \o <<"\n">> \o JoinLines(Tail(lines))

\* the line '* <word>: <num>'
Bullet(word, num) == <<"*", " ">> \o word \o <<":", " ">> \o num

\* the same line without its bullet marker: '<word>: <num>'
NoBullet(word, num) == word \o <<":", " ">> \o num

\* lines a mark cell may hold after its header
LineSet ==
    { Bullet(Questions, <<"9">>),
      Bullet(Questions, <<"7", ".", "5">>),
      Bullet(Analysis, <<"7">>),
      NoBullet(Questions, <<"9">>),
      Bullet(Questions, <<"1", ".", "2", ".", "3">>),
      Bullet(Questions, <<".">>),
      Bullet(Analysis, <<"b", "a", "d">>),
      <<"*", "\t">> \o Writing \o <<" ", ":", "8", ".", " ">>,
      <<"*", ":", ".", "5">>,
      <<"-", " ">> \o Questions \o <<":", " ", "9">>,
      <<>> }

\* the first lines of a mark cell: none, the header alone, the header and a
\* blank line, a header with a trailing space, a header of another level
HeadLineSet ==
    { <<>>,
      <<MarksHeader>>,
      <<MarksHeader, <<>>>>,
      <<MarksHeader \o <<" ">>, <<>>>>,
      <<Tail(MarksHeader), <<>>>> }

BodySet == UNION {[1..k -> LineSet] : k \in 0..MaxBodyLines}

CodeCell == [cell_type |-> "code", source |-> <<"x", " ", "1">>]

\* a markdown cell with a well-formed mark block
MarkdownCell ==
    [cell_type |-> "markdown",
     source |-> JoinLines(<<MarksHeader, <<>>, Bullet(Analysis, <<"7">>)>>)]

\* the notebooks get_nb_marks is run on: no cell at all, or a last cell of
\* either type, alone or after a code cell or a markdown cell
NotebookSet ==
    {<<>>} \cup
    { before \o <<[cell_type |-> t, source |-> JoinLines(h \o b) \o nl]>> :
        before \in {<<>>, <<CodeCell>>, <<MarkdownCell>>},
        t \in {"markdown", "code"},
        h \in HeadLineSet,
        b \in BodySet,
        nl \in {<<>>, <<"\n">>} }

Pending == [kind |-> "pending", marks |-> EmptyMarks]

(***************************************************************************)
(* The parser on its own: one call of get_nb_marks on any notebook         *)
(***************************************************************************)
NbIdle ==
    /\ action = "none"
    /\ allow_missing = FALSE
    /\ config = [projects |-> <<>>, round_final |-> FALSE]
    /\ dirs = <<>>
    /\ pc = "nb"
    /\ n_done = 0
    /\ class_list = [index |-> {}, columns |-> {}, val |-> <<>>]
    /\ error = [type |-> "", at |-> ""]
    /\ wrote = {}
    /\ files = <<>>

NbInit ==
    /\ nb \in NotebookSet
    /\ nb_result = Pending
    /\ NbIdle

\* nb = nbf.read(nb_path, nbf.NO_CONVERT); marks = get_nb_marks(nb_path)
ReadNotebook ==
    /\ pc = "nb"
    /\ nb_result = Pending
    /\ nb_result' = get_nb_marks(nb)
    /\ UNCHANGED <<nb, action, allow_missing, config, dirs, pc, n_done, class_list,
                   error, wrote, files>>

NbNext == ReadNotebook

NbSpec == NbInit /\ [][NbNext]_vars

(***************************************************************************)
(* Properties of the parser, checked under NbSpec                          *)
(***************************************************************************)
LastCell(cells) == cells[Len(cells)]

\* the cell_type of the first and of the last cell of the notebook under parse
FirstCellType == IF Len(nb) = 0 THEN "none" ELSE nb[1].cell_type
LastCellType == IF Len(nb) = 0 THEN "none" ELSE nb[Len(nb)].cell_type

\* the lines of the last cell of the notebook under parse
NbLines == IF Len(nb) = 0 THEN <<>> ELSE splitlines(LastCell(nb).source)

\* the last cell is markdown, has at least two lines and '## Marks' first
NbHasMarkBlock ==
    /\ Len(nb) >= 1
    /\ LastCell(nb).cell_type = "markdown"
    /\ Len(NbLines) >= 2
    /\ NbLines[1] = MarksHeader

AllIn(L, from, to, class) == \A i \in from..to : L[i] \in class

\* L is: the given first characters, blanks, a word token that is k, blanks, a
\* colon, blanks, a token of digits and points whose float is x, blanks
LineForm(L, first, k, x) ==
    /\ Len(L) >= Len(first)
    /\ SubSeq(L, 1, Len(first)) = first
    /\ \E a \in (Len(first) + 1)..(Len(L) + 1) :
         /\ AllIn(L, Len(first) + 1, a - 1, SpaceChars)
         /\ \E b \in a..(Len(L) + 1) :
              /\ AllIn(L, a, b - 1, WordChars)
              /\ SubSeq(L, a, b - 1) = k
              /\ \E c \in b..Len(L) :
                   /\ AllIn(L, b, c - 1, SpaceChars)
                   /\ L[c] = ":"
                   /\ \E d \in (c + 1)..(Len(L) + 1) :
                        /\ AllIn(L, c + 1, d - 1, SpaceChars)
                        /\ \E e \in (d + 1)..(Len(L) + 1) :
                             /\ AllIn(L, d, e - 1, NumChars)
                             /\ AllIn(L, e, Len(L), SpaceChars)
                             /\ float_ok(SubSeq(L, d, e - 1))
                             /\ float(SubSeq(L, d, e - 1)) = x

\* a line with its bullet marker
BulletForm(L, k, x) == LineForm(L, <<"*">>, k, x)

\* a line with or without its bullet marker
OptBulletForm(L, k, x) == LineForm(L, <<"*">>, k, x) \/ LineForm(L, <<>>, k, x)

\* the word tokens and values the lines of LineSet can hold
KeySet == {Questions, Analysis, Writing, <<>>}
ValueSet == {float(<<"9">>), float(<<"7", ".", "5">>), float(<<"7">>),
             float(<<"8", ".">>), float(<<".", "5">>)}

\* C3 (as claimed): for every last markdown cell that starts with the header
\* and has at least two lines, get_nb_marks never raises: it returns a MarkSet
C3_NeverRaises ==
    (nb_result /= Pending /\ NbHasMarkBlock) => nb_result.kind = "marks"

\* C7 (as claimed): after the header and the next line, every line of the form
\* [bullet] word : number, with or without the bullet, contributes its entry,
\* and the last line of a category gives its value
C7_OptionalBullet ==
    nb_result.kind = "marks" =>
        \A j \in 3..Len(NbLines) : \A k \in KeySet, x \in ValueSet :
            OptBulletForm(NbLines[j], k, x) =>
                /\ k \in DOMAIN nb_result.marks
                /\ (\A j2 \in (j + 1)..Len(NbLines) : \A x2 \in ValueSet :
                        ~OptBulletForm(NbLines[j2], k, x2))
                   => nb_result.marks[k] = x

\* C7 (amended): in every MarkSet get_nb_marks returns, the entries are those
\* of the lines after the second that have the form * word : number with the
\* bullet marker, the last line of a category giving its value; a line without
\* the bullet marker contributes nothing
C7_BulletRequired ==
    nb_result.kind = "marks" =>
        /\ \A j \in 3..Len(NbLines) : \A k \in KeySet, x \in ValueSet :
              BulletForm(NbLines[j], k, x) =>
                  /\ k \in DOMAIN nb_result.marks
                  /\ (\A j2 \in (j + 1)..Len(NbLines) : \A x2 \in ValueSet :
                          ~BulletForm(NbLines[j2], k, x2))
                     => nb_result.marks[k] = x
        /\ \A k \in DOMAIN nb_result.marks :
              \E j \in 3..Len(NbLines) : \E x \in ValueSet :
                  BulletForm(NbLines[j], k, x)

\* C7 witness: a MarkSet returned for a cell with two lines of one category
\* and different values, holding the value of the later line
C7_Witness ==
    /\ nb_result.kind = "marks"
    /\ \E j \in 3..Len(NbLines) : \E j2 \in (j + 1)..Len(NbLines) :
         \E k \in KeySet : \E x, x2 \in ValueSet :
            /\ BulletForm(NbLines[j], k, x)
            /\ BulletForm(NbLines[j2], k, x2)
            /\ x /= x2
            /\ nb_result.marks[k] = x2

\* the notebook gives get_nb_marks no mark block to read, for the given type
\* of the cell that is to be markdown
NoMarkBlock(cell_type) ==
    \/ Len(nb) = 0
    \/ cell_type /= "markdown"
    \/ Len(NbLines) < 2
    \/ NbLines[1] /= MarksHeader

\* C8 (as claimed): no cells, a mark cell whose first line is not exactly the
\* header, fewer than two lines, or a FIRST cell that is not markdown: no marks
C8_FirstCellType ==
    (nb_result /= Pending /\ NoMarkBlock(FirstCellType)) => nb_result = NoMarks

\* C8 (amended): no cells, a mark cell whose first line is not exactly the
\* header, fewer than two lines, or a LAST cell that is not markdown: no marks
C8_LastCellType ==
    (nb_result /= Pending /\ NoMarkBlock(LastCellType)) => nb_result = NoMarks

\* C8 witness: no marks from a notebook whose first cell is a markdown cell
\* with a mark block and whose last cell is a code cell holding the header, a
\* blank line and a well-formed mark line
C8_Witness ==
    /\ nb_result = NoMarks
    /\ Len(nb) >= 2
    /\ nb[1] = MarkdownCell
    /\ LastCell(nb).cell_type = "code"
    /\ Len(NbLines) >= 3
    /\ NbLines[1] = MarksHeader
    /\ \E k \in KeySet, x \in ValueSet : BulletForm(NbLines[3], k, x)

(***************************************************************************)
(* Configurations, rosters and project directories of a run                *)
(***************************************************************************)
MaxProjects == 2    \* projects of a configuration

ProjectNameCol == <<"P", "r", "o", "j", "e", "c", "t", " ", "n", "a", "m", "e">>
PresentationCol == <<"P", "r", "e", "s", "e", "n", "t", "a", "t", "i", "o", "n">>
ContributionCol == <<"C", "o", "n", "t", "r", "i", "b", "u", "t", "i", "o", "n">>

\* config.get('marks_col', 'Project %')
proj_col == <<"P", "r", "o", "j", "e", "c", "t", " ", "%">>

\* student logins: al and bo are in the roster, zed is not
al == <<"a", "l">>
bo == <<"b", "o">>
zed == <<"z", "e", "d">>
bo_at == bo \o <<"@", "x">>

\* an empty cell of the table (NaN); a cell holding x is <<x>>
NaN == <<>>

\* the student_id_col values of the table handler.read_student_data() returns,
\* less config['missing']; the table has none of the mark columns yet
get_class_list ==
    [index |-> {al, bo}, columns |-> {}, val |-> [rc \in {} |-> NaN]]

\* pconfig['members'] of a project: member entry -> contribution score
MemberSet ==
    { (al :> 5 * Scale),
      (al :> 5 * Scale) @@ (bo :> 3 * Scale),
      (bo_at :> 4 * Scale),
      (zed :> 2 * Scale) }

\* a notebook whose last cell is a mark cell with the given lines after a
\* header and a blank line
MarkNotebook(lines) ==
    <<CodeCell,
      [cell_type |-> "markdown",
       source |-> JoinLines(<<MarksHeader, <<>>>> \o lines)]>>

SixLines(q, a, r, d, w, p) ==
    <<Bullet(Questions, q), Bullet(Analysis, a), Bullet(Results, r),
      Bullet(Readability, d), Bullet(Writing, w), Bullet(Reproducibility, p)>>

\* the example of the specification: 9, 7, 8, 9, 8, 7
NbGood == MarkNotebook(SixLines(<<"9">>, <<"7">>, <<"8">>, <<"9">>, <<"8">>, <<"7">>))
NbGood2 ==
    MarkNotebook(SixLines(<<"6", ".", "5">>, <<"6">>, <<"5">>, <<"6">>, <<"7">>, <<"4">>))
\* Analysis is 'bad' and four categories are absent
NbPartial ==
    MarkNotebook(<<Bullet(Questions, <<"9">>), Bullet(Analysis, <<"b", "a", "d">>)>>)
\* the six categories and one more
NbExtra ==
    MarkNotebook(SixLines(<<"9">>, <<"7">>, <<"8">>, <<"9">>, <<"8">>, <<"7">>)
                 \o <<Bullet(<<"E", "f", "f", "o", "r", "t">>, <<"5">>)>>)
\* a numeric token with two points
NbBadFloat ==
    MarkNotebook(SixLines(<<"1", ".", "2", ".", "3">>, <<"7">>, <<"8">>, <<"9">>,
                          <<"8">>, <<"7">>))
\* a mark cell with a header and no mark line
NbEmptyMarks == MarkNotebook(<<>>)
\* a notebook that ends in a code cell
NbNoMarks == <<CodeCell>>

\* nbf.read(nb_path, nbf.NO_CONVERT): the notebook files on disk, by name
nbf_read(nb_path) ==
    CASE nb_path = "good.ipynb" -> NbGood
      [] nb_path = "good2.ipynb" -> NbGood2
      [] nb_path = "partial.ipynb" -> NbPartial
      [] nb_path = "extra.ipynb" -> NbExtra
      [] nb_path = "badfloat.ipynb" -> NbBadFloat
      [] nb_path = "emptymarks.ipynb" -> NbEmptyMarks
      [] nb_path = "nomarks.ipynb" -> NbNoMarks

\* the notebooks path.glob('*.ipynb') yields for a project, in the order it
\* yields them
DirSet ==
    { <<>>,
      <<"good.ipynb">>,
      <<"emptymarks.ipynb", "good2.ipynb">>,
      <<"nomarks.ipynb", "partial.ipynb">>,
      <<"extra.ipynb">>,
      <<"badfloat.ipynb">> }

ProjectNames == <<"P1", "P2", "P3", "P4">>

PresentationSet == {8 * Scale}

\* config['projects'], a dict in the order of the configuration file
ProjectsSet ==
    UNION { { [i \in 1..k |-> [name |-> ProjectNames[i],
                                members |-> ms[i],
                                presentation |-> pr[i]]] :
                ms \in [1..k -> MemberSet], pr \in [1..k -> PresentationSet] } :
            k \in 0..MaxProjects }

\* the commands of main that aggregate marks, and 'check'
ActionSet == {"check", "write-marks", "export-marks", "write-feedback"}

(***************************************************************************)
(* member_logins and check_config                                          *)
(***************************************************************************)
\* m.split('@')[0]
split_at(m) == SubSeq(m, 1, Find(m, 1, "@") - 1)

member_logins(pconfig) == {split_at(m) : m \in DOMAIN pconfig.members}

NoError == [type |-> "", at |-> ""]

\* the loop of check_config over the projects from the i-th on: the first
\* error it raises, or NoError
RECURSIVE check_projects(_, _, _, _)
check_projects(projects, i, known_students, all_members) ==
    IF i > Len(projects) THEN NoError
    ELSE LET members == member_logins(projects[i])
         IN  IF members \ known_students /= {}
             THEN [type |-> "ValueError: Unknown students", at |-> projects[i].name]
             ELSE IF all_members \cap members /= {}
             THEN [type |-> "ValueError: overlap", at |-> projects[i].name]
             ELSE check_projects(projects, i + 1, known_students,
                                 all_members \cup members)

\* the union of member_logins over all projects
RECURSIVE all_logins(_)
all_logins(projects) ==
    IF projects = <<>> THEN {}
    ELSE member_logins(Head(projects)) \cup all_logins(Tail(projects))

\* action 'check': check_config(config), with write_missing = True
CheckConfig ==
    /\ pc = "main"
    /\ action = "check"
    /\ LET known_students == get_class_list.index
           err == check_projects(config.projects, 1, known_students, {})
           missing == known_students \ all_logins(config.projects)
       IN  IF err /= NoError
           THEN /\ error' = err
                /\ pc' = "failed"
                /\ files' = files
           ELSE /\ error' = error
                /\ pc' = "done"
                /\ files' = IF missing = {} THEN files
                            ELSE Append(files, "missing.csv")
    /\ UNCHANGED <<nb, nb_result, action, allow_missing, config, dirs, n_done,
                   class_list, wrote>>

(***************************************************************************)
(* get_proj_marks and the table operations of get_marks                    *)
(***************************************************************************)
\* bool(marks) of get_proj_marks: a dict with at least one entry
truthy(r) == r.kind = "marks" /\ DOMAIN r.marks /= {}

\* the notebook files on disk
NbPathSet ==
    {"good.ipynb", "good2.ipynb", "partial.ipynb", "extra.ipynb", "badfloat.ipynb",
     "emptymarks.ipynb", "nomarks.ipynb"}

\* get_nb_marks(nb_path) for each file on disk (no file changes during a run)
nb_marks_of == [nb_path \in NbPathSet |-> get_nb_marks(nbf_read(nb_path))]

\* get_proj_marks(path) over the notebooks of the directory in glob order: the
\* first truthy marks, the ValueError of a notebook reached before any, or None
RECURSIVE get_proj_marks(_)
get_proj_marks(nb_paths) ==
    IF nb_paths = <<>> THEN NoMarks
    ELSE LET marks == nb_marks_of[Head(nb_paths)]
         IN  IF marks.kind = "ValueError" THEN marks
             ELSE IF truthy(marks) THEN marks
             ELSE get_proj_marks(Tail(nb_paths))

\* a schema test that lets extra categories through
schema_superset(proj_marks) == MARK_CATEGORIES \subseteq DOMAIN proj_marks

\* assert set(proj_marks) == set(MARK_CATEGORIES)
schema_ok(proj_marks) == DOMAIN proj_marks = MARK_CATEGORIES

\* marks = {'Project name': name, 'Presentation': pconfig['presentation']};
\* marks.update(proj_marks); marks['Contribution'] = contrib_score
row_marks(pconfig, proj_marks, contrib_score) ==
    [c \in {ProjectNameCol, PresentationCol, ContributionCol} \cup DOMAIN proj_marks |->
        IF c = ContributionCol THEN <<contrib_score>>
        ELSE IF c \in DOMAIN proj_marks THEN <<proj_marks[c]>>
        ELSE IF c = ProjectNameCol THEN <<pconfig.name>>
        ELSE <<pconfig.presentation>>]

\* class_list.loc[member, list(marks)] = marks: pandas adds the columns of
\* list(marks) the table lacks, and a row for a member label the index lacks
\* (setting with enlargement), every other cell of them NaN
loc_set(df, member, marks) ==
    LET index == df.index \cup {member}
        columns == df.columns \cup DOMAIN marks
    IN  [index |-> index,
         columns |-> columns,
         val |-> [rc \in index \X columns |->
                    IF rc[1] = member /\ rc[2] \in DOMAIN marks THEN marks[rc[2]]
                    ELSE IF rc[1] \in df.index /\ rc[2] \in df.columns THEN df.val[rc]
                    ELSE NaN]]

\* the member loop of get_marks, lines 181-183, over the member entries ms
RECURSIVE write_members(_, _, _, _)
write_members(df, pconfig, proj_marks, ms) ==
    IF ms = {} THEN df
    ELSE LET member == CHOOSE m \in ms : TRUE
         IN  write_members(
                 loc_set(df, member,
                         row_marks(pconfig, proj_marks, pconfig.members[member])),
                 pconfig, proj_marks, ms \ {member})

RECURSIVE SumCells(_, _, _)
SumCells(df, row, cols) ==
    IF cols = {} THEN 0
    ELSE LET c == CHOOSE x \in cols : TRUE
         IN  df.val[<<row, c>>][1] + SumCells(df, row, cols \ {c})

\* the columns get_marks averages: ('Presentation',) + MARK_CATEGORIES
mean_cols == {PresentationCol} \cup MARK_CATEGORIES

\* .astype(float).mean(axis=1) of one row: the mean of its cells that are not
\* NaN, as <<sum, count>> (the quotient sum / count), NaN when all are NaN
row_mean(df, row) ==
    LET present == {c \in mean_cols : df.val[<<row, c>>] /= NaN}
    IN  IF present = {} THEN NaN
        ELSE <<SumCells(df, row, present), Cardinality(present)>>

\* round() of the quotient a / b to a whole number, a tie going to the even one
round_half_even(a, b) ==
    LET q == a \div b
        r == a % b
    IN  IF 2 * r < b THEN q
        ELSE IF 2 * r > b THEN q + 1
        ELSE IF q % 2 = 0 THEN q ELSE q + 1

\* Series.round() of one final score
round_cell(x) ==
    IF x = NaN THEN NaN ELSE <<round_half_even(x[1], x[2] * Scale) * Scale, 1>>

\* class_list[proj_col] = ...mean(axis=1), and the rounding of lines 188-189
with_final(df, round_final) ==
    [index |-> df.index,
     columns |-> df.columns \cup {proj_col},
     val |-> [rc \in df.index \X (df.columns \cup {proj_col}) |->
                IF rc[2] = proj_col
                THEN IF round_final THEN round_cell(row_mean(df, rc[1]))
                     ELSE row_mean(df, rc[1])
                ELSE df.val[rc]]]

\* the allow_missing that write_marks, export_marks and write_feedback pass to
\* get_marks: write_feedback passes none, so the default False
get_marks_allow_missing ==
    IF action = "write-feedback" THEN FALSE ELSE allow_missing

(***************************************************************************)
(* A run of main                                                           *)
(***************************************************************************)
Init ==
    /\ nb = <<>>
    /\ nb_result = Pending
    /\ action \in ActionSet
    /\ allow_missing \in BOOLEAN
    /\ config \in {[projects |-> ps, round_final |-> rf] :
                      ps \in ProjectsSet, rf \in BOOLEAN}
    /\ dirs \in [1..Len(config.projects) -> DirSet]
    /\ pc = "main"
    /\ n_done = 0
    /\ class_list = [index |-> {}, columns |-> {}, val |-> [rc \in {} |-> NaN]]
    /\ error = NoError
    /\ wrote = {}
    /\ files = <<>>

\* write_marks, export_marks and write_feedback call get_marks first, and
\* get_marks begins with class_list = get_class_list(config)
StartGetMarks ==
    /\ pc = "main"
    /\ action \in {"write-marks", "export-marks", "write-feedback"}
    /\ class_list' = get_class_list
    /\ pc' = "get_marks"
    /\ UNCHANGED <<nb, nb_result, action, allow_missing, config, dirs, n_done,
                   error, wrote, files>>

\* one turn of the loop of get_marks over config['projects'], lines 169-183
ProjectStep ==
    /\ pc = "get_marks"
    /\ n_done < Len(config.projects)
    /\ LET pconfig == config.projects[n_done + 1]
           proj_marks == get_proj_marks(dirs[n_done + 1])
       IN  IF proj_marks.kind = "ValueError"
           THEN /\ error' = [type |-> "ValueError: float", at |-> ""]
                /\ pc' = "failed"
                /\ UNCHANGED <<n_done, class_list, wrote>>
           ELSE IF proj_marks.kind = "None"
           THEN IF ~get_marks_allow_missing
                THEN /\ error' = [type |-> "RuntimeError: Missing project marks",
                                  at |-> pconfig.name]
                     /\ pc' = "failed"
                     /\ UNCHANGED <<n_done, class_list, wrote>>
                ELSE /\ n_done' = n_done + 1
                     /\ UNCHANGED <<pc, error, class_list, wrote>>
           ELSE IF ~schema_ok(proj_marks.marks)
           THEN /\ error' = [type |-> "AssertionError", at |-> ""]
                /\ pc' = "failed"
                /\ UNCHANGED <<n_done, class_list, wrote>>
           ELSE /\ class_list' = write_members(class_list, pconfig, proj_marks.marks,
                                               DOMAIN pconfig.members)
                /\ wrote' = wrote \cup {<<pconfig.name, m>> : m \in DOMAIN pconfig.members}
                /\ n_done' = n_done + 1
                /\ UNCHANGED <<pc, error>>
    /\ UNCHANGED <<nb, nb_result, action, allow_missing, config, dirs, files>>

\* the end of get_marks, lines 184-190: .loc[:, columns] raises KeyError when
\* the table lacks one of the columns
FinalScore ==
    /\ pc = "get_marks"
    /\ n_done = Len(config.projects)
    /\ IF ~(mean_cols \subseteq class_list.columns)
       THEN /\ error' = [type |-> "KeyError", at |-> ""]
            /\ pc' = "failed"
            /\ UNCHANGED class_list
       ELSE /\ class_list' = with_final(class_list, config.round_final)
            /\ pc' = "output"
            /\ UNCHANGED error
    /\ UNCHANGED <<nb, nb_result, action, allow_missing, config, dirs, n_done,
                   wrote, files>>

\* a write_marks that writes the table from inside the project loop
WriteMarksCsvEarly ==
    /\ pc = "get_marks"
    /\ action = "write-marks"
    /\ files' = Append(files, "project_marks.csv")
    /\ UNCHANGED <<nb, nb_result, action, allow_missing, config, dirs, pc, n_done,
                   class_list, error, wrote>>

\* write_marks after get_marks: class_list.to_csv(marks_fname, index=None)
WriteMarksCsv ==
    /\ pc = "output"
    /\ action = "write-marks"
    /\ files' = Append(files, "project_marks.csv")
    /\ pc' = "done"
    /\ UNCHANGED <<nb, nb_result, action, allow_missing, config, dirs, n_done,
                   class_list, error, wrote>>

\* export_marks after get_marks, for a configuration that sets
\* canvas_export_path and export: the merged table goes to export.csv
ExportMarks ==
    /\ pc = "output"
    /\ action = "export-marks"
    /\ files' = Append(files, "export.csv")
    /\ pc' = "done"
    /\ UNCHANGED <<nb, nb_result, action, allow_missing, config, dirs, n_done,
                   class_list, error, wrote>>

\* get_member2project: the member entries that have a project
m2proj_users(projects) == UNION {DOMAIN projects[i].members : i \in DOMAIN projects}

\* write_feedback after get_marks, for a configuration that sets marks_col and
\* feedback_id_col: the final score is rounded once more, and every row whose
\* label is a member entry gets a marks.md
WriteFeedback ==
    /\ pc = "output"
    /\ action = "write-feedback"
    /\ class_list' =
          IF config.round_final
          THEN [class_list EXCEPT !.val =
                  [rc \in DOMAIN class_list.val |->
                      IF rc[2] = proj_col THEN round_cell(class_list.val[rc])
                      ELSE class_list.val[rc]]]
          ELSE class_list
    /\ files' = files \o [j \in 1..Cardinality(class_list.index
                                               \cap m2proj_users(config.projects))
                             |-> "marks.md"]
    /\ pc' = "done"
    /\ UNCHANGED <<nb, nb_result, action, allow_missing, config, dirs, n_done,
                   error, wrote>>

Next ==
    \/ CheckConfig
    \/ StartGetMarks
    \/ ProjectStep
    \/ FinalScore
    \/ WriteMarksCsv
    \/ ExportMarks
    \/ WriteFeedback

Spec == Init /\ [][Next]_vars

(***************************************************************************)
(* Properties of a run, checked under Spec                                 *)
(***************************************************************************)
Aggregating == action \in {"write-marks", "export-marks", "write-feedback"}

\* get_marks has returned its table
Completed == Aggregating /\ pc \in {"output", "done"}

Projects == config.projects

\* what the locator finds in the directory of the i-th project
Found(i) == get_proj_marks(dirs[i])

\* the i-th project has a MarkSet of exactly the six categories
Valid(i) == Found(i).kind = "marks" /\ DOMAIN Found(i).marks = MARK_CATEGORIES

\* the same student login is a member of two projects
Overlap ==
    \E i, j \in DOMAIN Projects :
        i /= j /\ member_logins(Projects[i]) \cap member_logins(Projects[j]) /= {}

\* a project has a member whose login is not in the roster
UnknownMember ==
    \E i \in DOMAIN Projects : ~(member_logins(Projects[i]) \subseteq get_class_list.index)

\* C1 (as claimed): every aggregation run of a configuration with overlapping
\* membership ends in a fatal error before any mark is written, and no run
\* writes the marks of two projects for one student
C1_OverlapRejected ==
    Aggregating =>
        /\ Overlap => (wrote = {} /\ ~Completed)
        /\ \A w1, w2 \in wrote : w1[2] = w2[2] => w1[1] = w2[1]

\* C2 (as claimed): every aggregation run of a configuration with a member
\* that is not in the roster ends in a fatal error before any mark is written,
\* and no completed run has marks for an identifier that is not in the roster
C2_UnknownRejected ==
    Aggregating =>
        /\ UnknownMember => (wrote = {} /\ ~Completed)
        /\ Completed => \A w \in wrote : w[2] \in get_class_list.index

\* the category columns of a row that hold a score
RowCats(r) ==
    {c \in class_list.columns \ {ProjectNameCol, PresentationCol, ContributionCol, proj_col} :
        class_list.val[<<r, c>>] /= NaN}

\* C4: marks are written only for a MarkSet of exactly the six categories; a
\* non-empty MarkSet with a missing or an extra category stops the run at its
\* project, so the loop never passes it and get_marks never returns; every
\* row holds either no category score or exactly the six
C4_SchemaExact ==
    /\ \A r \in class_list.index : RowCats(r) \in {{}, MARK_CATEGORIES}
    /\ \A i \in DOMAIN Projects :
          /\ (\E m \in DOMAIN Projects[i].members : <<Projects[i].name, m>> \in wrote)
                => DOMAIN Found(i).marks = MARK_CATEGORIES
          /\ (Aggregating /\ Found(i).kind = "marks" /\ ~Valid(i))
                => /\ n_done < i
                   /\ ~Completed
                   /\ (n_done = i - 1 /\ pc = "failed") => error.type = "AssertionError"

\* C4 witness: a run that allows missing marks, has written the marks of one
\* project and is stopped by the category set of a later one
C4_Witness ==
    /\ pc = "failed"
    /\ error.type = "AssertionError"
    /\ get_marks_allow_missing
    /\ wrote /= {}
    /\ Found(n_done + 1).kind = "marks"
    /\ DOMAIN Found(n_done + 1).marks /= MARK_CATEGORIES

\* C5 (as claimed): a project without marks stops the run with an error naming
\* it when missing marks are not allowed; when they are allowed it is skipped
\* and the run completes, also when every project is skipped
C5_MissingMarks ==
    Aggregating =>
        /\ \A i \in DOMAIN Projects :
              (~get_marks_allow_missing /\ Found(i).kind = "None")
                 => /\ n_done < i
                    /\ (n_done = i - 1 /\ pc = "failed")
                          => error = [type |-> "RuntimeError: Missing project marks",
                                      at |-> Projects[i].name]
        /\ ( /\ get_marks_allow_missing
             /\ Len(Projects) >= 1
             /\ \A i \in DOMAIN Projects : Found(i).kind = "None" \/ Valid(i) )
              => /\ pc /= "failed"
                 /\ \A i \in DOMAIN Projects :
                       Found(i).kind = "None" =>
                           \A m \in DOMAIN Projects[i].members :
                               <<Projects[i].name, m>> \notin wrote

RECURSIVE SumMarks(_, _)
SumMarks(marks, cats) ==
    IF cats = {} THEN 0
    ELSE LET c == CHOOSE x \in cats : TRUE
         IN  marks[c] + SumMarks(marks, cats \ {c})

\* the presentation score of the i-th project plus its six category scores
SevenSum(i) == Projects[i].presentation + SumMarks(Found(i).marks, MARK_CATEGORIES)

\* the mean of the seven values, rounded half to even when round_final is set
ExpectedFinal(i) ==
    IF config.round_final
    THEN LET q == SevenSum(i) \div (7 * Scale)
             r == SevenSum(i) % (7 * Scale)
         IN  <<(IF 2 * r > 7 * Scale \/ (2 * r = 7 * Scale /\ q % 2 = 1)
                THEN q + 1 ELSE q) * Scale, 1>>
    ELSE <<SevenSum(i), 7>>

\* C6 (as claimed): after get_marks, every member of a project with a valid
\* MarkSet has the mean of the project's seven values as final score, and a
\* row without project marks has none
C6_FinalScore ==
    Completed =>
        /\ \A i \in DOMAIN Projects : Valid(i) =>
              \A m \in DOMAIN Projects[i].members :
                  /\ m \in class_list.index
                  /\ class_list.val[<<m, proj_col>>] = ExpectedFinal(i)
        /\ \A r \in class_list.index :
              class_list.val[<<r, PresentationCol>>] = NaN
                 => class_list.val[<<r, proj_col>>] = NaN

\* the number of times the marks file has been written
RECURSIVE Count(_, _)
Count(seq, x) ==
    IF seq = <<>> THEN 0
    ELSE (IF Head(seq) = x THEN 1 ELSE 0) + Count(Tail(seq), x)

\* C9: in a write-marks run the marks file is written at most once, only when
\* every project has been dealt with and nothing was raised, after which the
\* run is over; a run that failed has written no file
C9_WriteOnce ==
    action = "write-marks" =>
        /\ Count(files, "project_marks.csv") <= 1
        /\ Count(files, "project_marks.csv") = 1
              => (pc = "done" /\ n_done = Len(Projects) /\ error = NoError)
        /\ pc = "failed" => files = <<>>
        /\ pc \in {"main", "get_marks", "output"} => files = <<>>

\* C9 witness: a write-marks run that stopped after the marks of a project
\* were put on the table, and wrote no file
C9_Witness ==
    /\ action = "write-marks"
    /\ pc = "failed"
    /\ wrote /= {}
    /\ files = <<>>

\* C10 (as claimed): for a configuration check_config accepts, the table
\* get_marks returns has the row keys of the roster, and the marks of each
\* project are on the rows of its member logins
C10_RowKeys ==
    (Completed /\ check_projects(Projects, 1, get_class_list.index, {}) = NoError) =>
        /\ class_list.index = get_class_list.index
        /\ \A i \in DOMAIN Projects : Valid(i) =>
              {r \in class_list.index :
                  class_list.val[<<r, ProjectNameCol>>] = <<Projects[i].name>>}
                = member_logins(Projects[i])

====
